---- MODULE Spec2Model ----
(***************************************************************************)
(* nexis-clicker / nexis-scraper: monthly windows, chunked downloads,      *)
(* resumption from the zip/ directory, decoding of archives into records.  *)
(*                                                                         *)
(* Strings are sequences of tokens.  File names and paths are sequences of *)
(* single characters; document texts are sequences of words, separators    *)
(* and markers.                                                            *)
(***************************************************************************)
EXTENDS Integers, Sequences, FiniteSets, TLC

\* ------------------------------------------------------------ bounds
\* runs of clickthrough in one behaviour
MaxRuns == 2
\* runs that are stopped: killed from outside, or ended by a failing fetch
MaxInterrupts == 1
\* documents the source packs into one archive
MaxEntries == 2
\* largest result count the planning specification draws
MaxN == 2600

\* ------------------------------------------------- program constants
\* download(..., n: int = 1000, ...)
n == 1000
\* range(0, ..., 100) and min(i + 100, ...)
ChunkSize == 100

\* ------------------------------------------------------------ strings
NL == "\n"
SP == " "
COMMA == ","

Some(v) == {v}
None == {}
Get(o) == CHOOSE v \in o : TRUE

DigitChar(d) == <<"0", "1", "2", "3", "4", "5", "6", "7", "8", "9">>[d + 1]

\* str(k) / f"{k}"
RECURSIVE Str(_)
Str(k) == IF k < 0 THEN <<"-">> \o Str(0 - k)
          ELSE IF k < 10 THEN <<DigitChar(k)>>
          ELSE Str(k \div 10) \o <<DigitChar(k % 10)>>

\* f"{k:02d}" for k >= 0
Pad2(k) == IF k < 10 THEN <<"0">> \o Str(k) ELSE Str(k)

\* f"{k:04d}" (strftime %Y) for k >= 0
Pad4(k) == IF k < 10 THEN <<"0", "0", "0">> \o Str(k)
           ELSE IF k < 100 THEN <<"0", "0">> \o Str(k)
           ELSE IF k < 1000 THEN <<"0">> \o Str(k)
           ELSE Str(k)

\* s.endswith(suffix)
EndsWith(s, suffix) ==
    /\ Len(s) >= Len(suffix)
    /\ SubSeq(s, Len(s) - Len(suffix) + 1, Len(s)) = suffix

\* sub in s
Contains(s, sub) ==
    \E k \in 1..(Len(s) - Len(sub) + 1) : SubSeq(s, k, k + Len(sub) - 1) = sub

Min(a, b) == IF a <= b THEN a ELSE b

\* list(range(a, b, step)), step > 0
RECURSIVE Range(_, _, _)
Range(a, b, step) == IF a >= b THEN <<>> ELSE <<a>> \o Range(a + step, b, step)

\* ------------------------------------------------------------ windows
\* months_and_years of clickthrough; nexis_scraper loops over range(start, end + 1)
MonthsAndYears(p, start, end) ==
    LET last == IF p = "scraper" THEN end + 1 ELSE end
        years == IF start >= last THEN 0 ELSE last - start
    IN  [k \in 1..(12 * years) |-> <<((k - 1) % 12) + 1, start + ((k - 1) \div 12)>>]

\* ------------------------------------------------------------ paths
ZipDir == <<"z", "i", "p", "/">>
DotZip == <<".", "z", "i", "p">>

\* f"{year}-{month:02d}"
MonthDir(year, month) == Str(year) \o <<"-">> \o Pad2(month)

\* variant: the label counts from 0
range_FromZero(x, y) ==
    IF x # y THEN Str(x - 1) \o <<"-">> \o Str(y - 1) ELSE Str(x - 1)

\* range_ = f"{x}-{y}" if x != y else f"{x}"
range_(x, y) == IF x # y THEN Str(x) \o <<"-">> \o Str(y) ELSE Str(x)

\* variant: both directions are stored under the same name
bPrefixNone(bw) == <<>>

\* b = "B" if backward else ""
bPrefix(bw) == IF bw THEN <<"B">> ELSE <<>>

\* dest_path = data_path / f"zip/{year}-{month:02d}/{b}{range_}.zip"
DestPath(year, month, bw, x, y) ==
    ZipDir \o MonthDir(year, month) \o <<"/">> \o bPrefix(bw) \o range_(x, y) \o DotZip

\* Path.name: what follows the last "/"
Name(path) ==
    LET slashes == {k \in 1..Len(path) : path[k] = "/"}
        last == IF slashes = {} THEN 0
                ELSE CHOOSE k \in slashes : \A j \in slashes : j <= k
    IN  SubSeq(path, last + 1, Len(path))

\* (data_path / "zip").glob(f"{year}-{month:02d}/*.zip") over the stored paths
Glob(paths, year, month) ==
    LET dir == ZipDir \o MonthDir(year, month) \o <<"/">>
    IN  {p \in paths : p = dir \o Name(p) /\ EndsWith(p, DotZip)}

\* ------------------------------------------------------------ planning
\* r of download: range(0, min(n_results, n), 100) forward,
\* range(0, min(n_results - n, n), 100) backward
\* variants: one loses the cap of 1000, one takes the backward range from all results
ForwardRangeUncapped(nres) == Range(0, nres, ChunkSize)
BackwardRangeFromN(nres) == Range(0, Min(nres, n), ChunkSize)

ForwardRange(nres) == Range(0, Min(nres, n), ChunkSize)
BackwardRange(nres) == Range(0, Min(nres - n, n), ChunkSize)
LoopRange(nres, bw) == IF bw THEN BackwardRange(nres) ELSE ForwardRange(nres)

\* x, y of one iteration
ChunkX(i) == i + 1
ChunkY(i, nres, bw) ==
    IF bw THEN Min(i + ChunkSize, nres - 1000) ELSE Min(i + ChunkSize, nres)

\* the chunks download goes through, in order, as <<x, y>>
Plan(nres, bw) ==
    LET r == LoopRange(nres, bw)
    IN  [k \in 1..Len(r) |-> <<ChunkX(r[k]), ChunkY(r[k], nres, bw)>>]

\* ------------------------------------------------------------ the source
\* What the news database holds is an input of the program.  The model's
\* database: one result count per window, and per result position a document.

\* the number in the results header after narrowing to a window
NResults(year, month) ==
    IF year = 2019 THEN (IF month <= 2 THEN 2 ELSE IF month = 3 THEN 150 ELSE 0)
    ELSE IF year # 2020 THEN 0
    ELSE CASE month = 1 -> 150
           [] month = 2 -> 2000
           [] month = 3 -> 200
           [] month = 4 -> 1
           [] OTHER -> 0

NBSP == "\\xa0"
RtfOpen == "{\\rtf1"
RtfClose == "}"
WS == {SP, NL, NBSP, "\t"}

\* date lines as the database prints them, by month of 2020 and of 2019
DateLines == <<"Jan 5, 2020", "Feb 5, 2020", "Mar 5, 2020", "Apr 5, 2020">>
DateLines2019 == <<"Jan 5, 2019", "Feb 5, 2019", "Mar 5, 2019">>
DateLinesOf(year) == IF year = 2019 THEN DateLines2019 ELSE DateLines

\* documents that are not well formed: in 2020 one without a date and one
\* without a dateline, in 2019 one without the Body marker and one without a
\* closing marker
DocKind(year, month, pos) ==
    IF year = 2019 /\ month = 1 /\ pos = 1 THEN "nobody"
    ELSE IF year = 2019 /\ month = 2 /\ pos = 1 THEN "noclosing"
    ELSE IF year = 2019 THEN "good"
    ELSE IF month = 1 /\ pos = 101 THEN "undated"
    ELSE IF month = 2 /\ pos = 1100 THEN "nodateline"
    ELSE "good"

\* the text of the document at position pos (ascending by date) of a window
DocText(year, month, pos) ==
    LET kind == DocKind(year, month, pos)
        dateline == IF kind = "nodateline" THEN <<>>
                    ELSE <<"Dateline:", SP, "Paris", COMMA, SP, "France", COMMA, SP, "Monday", NL>>
        dateTok == IF kind = "undated" \/ month > Len(DateLinesOf(year)) THEN "n.d."
                   ELSE DateLinesOf(year)[month]
        marker == IF kind = "nobody" THEN "Text" ELSE "Body"
        closing == IF kind = "noclosing" THEN "Length"
                   ELSE IF pos % 2 = 0 THEN "Graphic" ELSE "Load-Date"
    IN  <<"Protest">> \o Str(pos) \o <<NL, "AFP", SP, NL, dateTok, NL>>
        \o dateline
        \o <<marker, NL, "Climate", NBSP, "march", NL, closing, NL, "End">>

\* the number in the name the database gives a document's entry: its position
\* in the window, but in March 2019 document 101 is delivered under the name
\* of document 1 (both are dated Mar 5, 2019)
EntryNumber(year, month, pos) ==
    IF year = 2019 /\ month = 3 /\ pos = 101 THEN 1 ELSE pos

\* one entry of an archive: its name and its bytes (rich text)
DocEntry(year, month, pos) ==
    [filename |-> <<"d">> \o Str(EntryNumber(year, month, pos)) \o <<".", "R", "T", "F">>,
     rtf |-> <<RtfOpen, NL>> \o DocText(year, month, pos) \o <<NL, RtfClose>>]

DoclistEntry ==
    [filename |-> <<"x", "_", "d", "o", "c", "l", "i", "s", "t", ".", "R", "T", "F">>,
     rtf |-> <<RtfOpen, "list", RtfClose>>]

\* the position (ascending by date) of result index j of the sort order of search:
\* order = "descending" if backward else "ascending"
\* variant: a backward run is taken to sort ascending too
PositionAscending(j, nres, bw) == j

Position(j, nres, bw) == IF bw THEN nres + 1 - j ELSE j

\* the archive the download dialog delivers for SelectedRange x-y: the manifest
\* and the documents of the range (the first MaxEntries of them)
Archive(year, month, bw, x, y) ==
    LET nres == NResults(year, month)
        last == Min(y, x + MaxEntries - 1)
    IN  <<DoclistEntry>> \o
        [k \in 1..(IF last >= x THEN last - x + 1 ELSE 0) |->
            DocEntry(year, month, Position(x + k - 1, nres, bw))]

\* the archive stored for request q = <<year, month, backward, x, y>>
ArchiveOf(q) == Archive(q[1], q[2], q[3], q[4], q[5])

\* ------------------------------------------------------------ decoding
\* str.strip()
RECURSIVE Strip(_)
Strip(s) ==
    IF s = <<>> THEN s
    ELSE IF s[1] \in WS THEN Strip(Tail(s))
    ELSE IF s[Len(s)] \in WS THEN Strip(SubSeq(s, 1, Len(s) - 1))
    ELSE s

\* rtf_to_text: the markup goes, the text stays
RtfToText(rtf) == SelectSeq(rtf, LAMBDA t : t \notin {RtfOpen, RtfClose})

\* plaintext.replace("\xa0", " ")
ReplaceNbsp(s) == <<>> \o [k \in 1..Len(s) |-> IF s[k] = NBSP THEN SP ELSE s[k]]

\* "_doclist" in file.filename
IsDoclist(filename) == Contains(filename, <<"_", "d", "o", "c", "l", "i", "s", "t">>)

\* unpack: [(filename, plaintext)] of the entries that are not the manifest
Unpack(archive) ==
    LET docs == SelectSeq(archive, LAMBDA e : ~IsDoclist(e.filename))
    IN  <<>> \o [k \in 1..Len(docs) |->
                    <<docs[k].filename, ReplaceNbsp(Strip(RtfToText(docs[k].rtf)))>>]

\* the first index of token t in s, 0 when there is none
IndexOf(s, t) ==
    IF \E k \in 1..Len(s) : s[k] = t
    THEN CHOOSE k \in 1..Len(s) : s[k] = t /\ \A j \in 1..(k - 1) : s[j] # t
    ELSE 0

Before(s, k) == SubSeq(s, 1, k - 1)
After(s, k) == SubSeq(s, k + 1, Len(s))

Max(S) == CHOOSE v \in S : \A w \in S : w <= v

\* date.strftime("%Y-%m-%d") of <<year, month, day>>
Strftime(d) == Pad4(d[1]) \o <<"-">> \o Pad2(d[2]) \o <<"-">> \o Pad2(d[3])

\* the dates the model's date lines mean
KnownDates ==
    {<<2020, m, 5>> : m \in 1..Len(DateLines)} \cup {<<2019, m, 5>> : m \in 1..Len(DateLines2019)}

\* dateparser.parse: a date line of the database, or a date in ISO form; else None
DateparserParse(s) ==
    IF Len(s) = 1 /\ \E m \in 1..Len(DateLines) : DateLines[m] = s[1]
    THEN Some(<<2020, CHOOSE m \in 1..Len(DateLines) : DateLines[m] = s[1], 5>>)
    ELSE IF Len(s) = 1 /\ \E m \in 1..Len(DateLines2019) : DateLines2019[m] = s[1]
    THEN Some(<<2019, CHOOSE m \in 1..Len(DateLines2019) : DateLines2019[m] = s[1], 5>>)
    ELSE IF \E d \in KnownDates : Strftime(d) = s
    THEN Some(CHOOSE d \in KnownDates : Strftime(d) = s)
    ELSE None

\* variant: the pattern is r"Dateline:\s?(.+)\n", the group runs to the end of
\* its line
GroupEndsLine(rest, a) ==
    {b \in a..Len(rest) :
        /\ \A k \in a..b : rest[k] # NL
        /\ b + 1 <= Len(rest)
        /\ rest[b + 1] = NL}

\* re.findall(r"Dateline:\s?(.+),[^,]+\n", rest): the group of the match that
\* starts at token i, None when none starts there.  The group is greedy: it ends
\* at the last comma of its line that a line break follows with no comma between.
GroupEnds(rest, a) ==
    {b \in a..Len(rest) :
        /\ \A k \in a..b : rest[k] # NL
        /\ b + 1 <= Len(rest)
        /\ rest[b + 1] = COMMA
        /\ \E j \in (b + 3)..Len(rest) :
              rest[j] = NL /\ \A k \in (b + 2)..(j - 1) : rest[k] # COMMA}

MatchAt(rest, i) ==
    LET skip == i + 1 <= Len(rest) /\ rest[i + 1] \in WS
        after == GroupEnds(rest, i + 2)
        here == GroupEnds(rest, i + 1)
    IN  IF rest[i] # "Dateline:" THEN None
        ELSE IF skip /\ after # {} THEN Some(SubSeq(rest, i + 2, Max(after)))
        ELSE IF here # {} THEN Some(SubSeq(rest, i + 1, Max(here)))
        ELSE None

\* location = location[0] if len(location) > 0 else None
FindLocation(rest) ==
    LET found == [i \in {k \in 1..Len(rest) : rest[k] = "Dateline:"} |-> MatchAt(rest, i)]
        starts == {i \in DOMAIN found : found[i] # None}
    IN  IF starts = {} THEN None
        ELSE found[CHOOSE i \in starts : \A j \in starts : i <= j]

\* the places of ", " in s
CommaSpaces(s) == {k \in 1..(Len(s) - 1) : s[k] = COMMA /\ s[k + 1] = SP}

Raise == [raised |-> TRUE]
Return(v) == [raised |-> FALSE, value |-> v]

\* location, country of parse.  nexis_clicker: location.rsplit(", ", 1);
\* nexis_scraper: location.split(", ").  `", " in None` raises TypeError, and the
\* scraper's unpacking raises ValueError on more than two parts.
SplitLocation(p, location) ==
    IF location = None THEN Raise
    ELSE LET s == Get(location)
             cs == CommaSpaces(s)
         IN  IF cs = {} THEN Return([location |-> Some(s), country |-> None])
             ELSE IF p = "scraper" /\ Cardinality(cs) > 1 THEN Raise
             ELSE Return([location |-> Some(Before(s, Max(cs))),
                          country |-> Some(SubSeq(s, Max(cs) + 2, Len(s)))])

\* text of parse: what precedes "Graphic" if there is one, else what precedes
\* "Load-Date" (ValueError when there is neither)
BodyText(rest) ==
    IF IndexOf(rest, "Graphic") # 0 THEN Return(Before(rest, IndexOf(rest, "Graphic")))
    ELSE IF IndexOf(rest, "Load-Date") # 0
    THEN Return(Before(rest, IndexOf(rest, "Load-Date")))
    ELSE Raise

\* parse(plaintext): the record, or an exception
Parse(p, plaintext) ==
    LET k1 == IndexOf(plaintext, NL)
        title == Before(plaintext, k1)
        rest1 == After(plaintext, k1)
        k2 == IndexOf(rest1, NL)
        feed == Before(rest1, k2)
        rest2 == After(rest1, k2)
        k3 == IndexOf(rest2, NL)
        date == DateparserParse(Strip(Before(rest2, k3)))
        rest3 == After(rest2, k3)
        loc == SplitLocation(p, FindLocation(rest3))
        kb == IndexOf(rest3, "Body")
        body == BodyText(After(rest3, kb))
    IN  IF k1 = 0 \/ k2 = 0 \/ k3 = 0 THEN Raise
        ELSE IF loc.raised THEN Raise
        ELSE IF kb = 0 THEN Raise
        ELSE IF body.raised THEN Raise
        ELSE Return([date |-> IF date # None THEN Some(Strftime(Get(date))) ELSE None,
                     country |-> loc.value.country,
                     location |-> loc.value.location,
                     source |-> Strip(feed),
                     title |-> Strip(title),
                     text |-> Strip(body.value)])

\* jpath = data_path / "json" / datestr / f"{fn}.json"
JPath(datestr, fn) ==
    <<"j", "s", "o", "n", "/">> \o datestr \o <<"/">> \o fn \o <<".", "j", "s", "o", "n">>

\* variant: what is there is kept and the record written beside it
WriteTextBeside(store, jpath, item) ==
    IF jpath \in DOMAIN store THEN ((jpath \o <<"~">>) :> item) @@ store
    ELSE (jpath :> item) @@ store

\* variant: a record file that is there is left as it is
WriteTextKeep(store, jpath, item) ==
    IF jpath \in DOMAIN store THEN store ELSE (jpath :> item) @@ store

\* jpath.write_text(json.dumps(item, ...)): the file is created or overwritten
WriteText(store, jpath, item) == (jpath :> item) @@ store

\* the check of nexis_clicker's process_download that nexis_scraper's process lacks:
\* if not item.date: continue
SkipsUndated(p) == p = "clicker"

\* the loop of process_download / process over the unpacked texts, on the record
\* store: the store it leaves, and whether an exception ended it
RECURSIVE ProcessTexts(_, _, _)
ProcessTexts(p, store, texts) ==
    IF texts = <<>> THEN [json |-> store, raised |-> FALSE]
    ELSE LET fn == texts[1][1]
             res == Parse(p, texts[1][2])
         IN  IF res.raised THEN [json |-> store, raised |-> TRUE]
             ELSE IF SkipsUndated(p) /\ res.value.date = None
             THEN ProcessTexts(p, store, Tail(texts))
             ELSE IF res.value.date = None THEN [json |-> store, raised |-> TRUE]
             ELSE LET d == DateparserParse(Get(res.value.date))
                  IN  IF d = None THEN [json |-> store, raised |-> TRUE]
                      ELSE ProcessTexts(p,
                               WriteText(store, JPath(Strftime(Get(d)), fn), res.value),
                               Tail(texts))

\* variant: the artifact is left for process_downloads to decode later
ProcessDownloadDeferred(p, store, archive) == [json |-> store, raised |-> FALSE]

\* process_download(path) / process(path)
ProcessDownload(p, store, archive) == ProcessTexts(p, store, Unpack(archive))

\* ------------------------------------------------------------ resumption
\* variant: the test is for "0.zip"
AnyNot0(existing_files) ==
    \E a \in existing_files : ~EndsWith(Name(a), <<"0">> \o DotZip)

\* search_by_month, first test: any(not a.name.endswith("00.zip") ...)
AnyNot00(existing_files) ==
    \E a \in existing_files : ~EndsWith(Name(a), <<"0", "0">> \o DotZip)

\* variant: the test is for "0000.zip"
Any0000(existing_files) ==
    \E a \in existing_files : EndsWith(Name(a), <<"0", "0", "0", "0">> \o DotZip)

\* search_by_month, second test: any(a.name.endswith("000.zip") ...)
Any000(existing_files) ==
    \E a \in existing_files : EndsWith(Name(a), <<"0", "0", "0">> \o DotZip)

\* the three outcomes of the two tests, under the names of the design
Classify(existing_files) ==
    IF AnyNot00(existing_files) THEN "Complete"
    ELSE IF Any000(existing_files) THEN "CappedForward"
    ELSE "NeedsWork"

\* search_by_month returns None before it touches the page
ReturnsNone(existing_files, bw) ==
    \/ AnyNot00(existing_files)
    \/ Any000(existing_files) /\ ~bw

\* variant: the file is never found
ExistsNever(paths, dest_path) == FALSE

\* if dest_path.exists(): continue
Exists(paths, dest_path) == dest_path \in paths

\* ------------------------------------------------------------ the runs
VARIABLES
    prog,       \* "clicker" or "scraper": which of the two programs runs
    zip,        \* data/zip: path |-> the request whose archive is stored there
    json,       \* data/json: path |-> the record written there
    pc,         \* where the current run of clickthrough stands
    backward,   \* the backward argument of the current run
    wi,         \* index into months_and_years of the current window
    n_results,  \* n_results of download
    r,          \* what is left of r in download's loop, the current i first
    log,        \* one entry per run: its backward argument and how it ended
    ops,        \* page operations of the current run, by window
    resume,     \* outcome of search_by_month's tests per window of the current run
    call,       \* a function of the program called on its own: its arguments
    result      \* and what it has returned so far

pipeline == <<prog, zip, json, pc, backward, wi, n_results, r, log, ops, resume>>

\* clickthrough(start=2020, end=2021)
YearRange == <<2020, 2021>>

Windows == MonthsAndYears(prog, YearRange[1], YearRange[2])
CurMonth == Windows[wi][1]
CurYear == Windows[wi][2]

\* the chunk of the current iteration and where it goes
CurX == ChunkX(r[1])
CurY == ChunkY(r[1], n_results, backward)
CurDest == DestPath(CurYear, CurMonth, backward, CurX, CurY)

Op(w, kind, path) == [w |-> w, op |-> kind, path |-> path]

Stops == Cardinality({k \in 1..Len(log) : log[k].end = "stopped"})
Ended(how) == [log EXCEPT ![Len(log)].end = how]

NoCall == [fn |-> "none"]
NoResult == [stage |-> 0]

PipelineIdle ==
    /\ zip = <<>>
    /\ json = <<>>
    /\ pc = "idle"
    /\ backward = FALSE
    /\ wi = 1
    /\ n_results = 0
    /\ r = <<>>
    /\ log = <<>>
    /\ ops = {}
    /\ resume = <<>>

PipelineInit ==
    /\ prog \in {"clicker", "scraper"}
    /\ PipelineIdle

\* clickthrough up to the loop: setup, login, search
StartRun(bw) ==
    /\ pc = "idle"
    /\ Len(log) < MaxRuns
    /\ backward' = bw
    /\ wi' = 1
    /\ pc' = "month"
    /\ n_results' = 0
    /\ r' = <<>>
    /\ log' = Append(log, [backward |-> bw, end |-> "running"])
    /\ ops' = {}
    /\ resume' = <<>>
    /\ UNCHANGED <<prog, zip, json, call, result>>

\* variant: the page is narrowed before the files are looked at
NarrowOpsAlways(none, w) == {Op(w, "narrow", <<>>)}

\* the page operations of search_by_month: none when it returns None
NarrowOps(none, w) == IF none THEN {} ELSE {Op(w, "narrow", <<>>)}

\* search_by_month, and the continue of clickthrough when it returns None
SearchByMonth ==
    /\ pc = "month"
    /\ wi <= Len(Windows)
    /\ \E existing_files \in {Glob(DOMAIN zip, CurYear, CurMonth)} :
          \E none \in {ReturnsNone(existing_files, backward)} :
             /\ resume' = Append(resume, Classify(existing_files))
             /\ ops' = ops \cup NarrowOps(none, wi)
             /\ pc' = IF none THEN "month" ELSE "narrowed"
             /\ wi' = IF none THEN wi + 1 ELSE wi
    /\ UNCHANGED <<prog, zip, json, backward, n_results, r, log, call, result>>

\* search_by_month raises while it narrows the page (page.fill or page.click
\* outside its two guarded clicks): clickthrough's except prints it, its finally
\* closes the browser
NarrowFail ==
    /\ pc = "month"
    /\ wi <= Len(Windows)
    /\ Stops < MaxInterrupts
    /\ \E existing_files \in {Glob(DOMAIN zip, CurYear, CurMonth)} :
          /\ ~ReturnsNone(existing_files, backward)
          /\ resume' = Append(resume, Classify(existing_files))
          /\ ops' = ops \cup NarrowOps(FALSE, wi)
    /\ pc' = "idle"
    /\ log' = Ended("stopped")
    /\ UNCHANGED <<prog, zip, json, backward, wi, n_results, r, call, result>>

\* download up to its loop: read the result count, lay out r
DownloadBegin ==
    /\ pc = "narrowed"
    /\ n_results' = NResults(CurYear, CurMonth)
    /\ r' = LoopRange(n_results', backward)
    /\ ops' = ops \cup {Op(wi, "count", <<>>)}
    /\ pc' = "chunks"
    /\ UNCHANGED <<prog, zip, json, backward, wi, log, resume, call, result>>

\* one iteration whose dest_path exists: continue
SkipChunk ==
    /\ pc = "chunks"
    /\ r # <<>>
    /\ Exists(DOMAIN zip, CurDest)
    /\ r' = Tail(r)
    /\ UNCHANGED <<prog, zip, json, pc, backward, wi, n_results, log, ops, resume, call, result>>

\* one iteration that goes through the download dialog and moves the archive
\* to dest_path
FetchChunk ==
    /\ pc = "chunks"
    /\ r # <<>>
    /\ ~Exists(DOMAIN zip, CurDest)
    /\ ops' = ops \cup {Op(wi, "fetch", CurDest)}
    /\ zip' = (CurDest :> <<CurYear, CurMonth, backward, CurX, CurY>>) @@ zip
    /\ pc' = "process"
    /\ UNCHANGED <<prog, json, backward, wi, n_results, r, log, resume, call, result>>

\* one iteration whose download raises (a timeout of expect_download, a missing
\* element): clickthrough's except prints it, its finally closes the browser
FetchFail ==
    /\ pc = "chunks"
    /\ r # <<>>
    /\ ~Exists(DOMAIN zip, CurDest)
    /\ Stops < MaxInterrupts
    /\ ops' = ops \cup {Op(wi, "fetch", CurDest)}
    /\ pc' = "idle"
    /\ log' = Ended("stopped")
    /\ UNCHANGED <<prog, zip, json, backward, wi, n_results, r, resume, call, result>>

\* process_download(dest_path) at the end of the iteration; an exception in it
\* leaves download and the loop of clickthrough
ProcessChunk ==
    /\ pc = "process"
    /\ \E res \in {ProcessDownload(prog, json, ArchiveOf(zip[CurDest]))} :
          /\ json' = res.json
          /\ pc' = IF res.raised THEN "idle" ELSE "chunks"
          /\ r' = IF res.raised THEN r ELSE Tail(r)
          /\ log' = IF res.raised THEN Ended("error") ELSE log
    /\ UNCHANGED <<prog, zip, backward, wi, n_results, ops, resume, call, result>>

\* download returns, clickthrough takes the next window
DownloadEnd ==
    /\ pc = "chunks"
    /\ r = <<>>
    /\ wi' = wi + 1
    /\ pc' = "month"
    /\ UNCHANGED <<prog, zip, json, backward, n_results, r, log, ops, resume, call, result>>

\* the loop is over: finally closes the browser
EndRun ==
    /\ pc = "month"
    /\ wi > Len(Windows)
    /\ pc' = "idle"
    /\ log' = Ended("done")
    /\ UNCHANGED <<prog, zip, json, backward, wi, n_results, r, ops, resume, call, result>>

\* the process is killed (Ctrl-C, power): nothing more is written
Interrupt ==
    /\ pc # "idle"
    /\ Stops < MaxInterrupts
    /\ pc' = "idle"
    /\ log' = Ended("stopped")
    /\ UNCHANGED <<prog, zip, json, backward, wi, n_results, r, ops, resume, call, result>>

PipelineNext ==
    \/ \E bw \in BOOLEAN : StartRun(bw)
    \/ SearchByMonth
    \/ NarrowFail
    \/ DownloadBegin
    \/ SkipChunk
    \/ FetchChunk
    \/ FetchFail
    \/ ProcessChunk
    \/ DownloadEnd
    \/ EndRun
    \/ Interrupt

vars == <<prog, zip, json, pc, backward, wi, n_results, r, log, ops, resume, call, result>>

Init == PipelineInit /\ call = NoCall /\ result = NoResult
Next == PipelineNext
Spec == Init /\ [][Next]_vars

\* ------------------------------------------------- download's loop on its own
\* The chunks of one pass of download over a window with nres results: per
\* iteration x, y, the range typed into the dialog (SelectedRange), dest_path
Chunks(year, month, nres, bw) ==
    LET pl == Plan(nres, bw)
    IN  [k \in 1..Len(pl) |->
            [x |-> pl[k][1], y |-> pl[k][2],
             selected |-> range_(pl[k][1], pl[k][2]),
             dest |-> DestPath(year, month, bw, pl[k][1], pl[k][2])]]

\* a window, its result count drawn, paged forward and then, with backward
\* extension, paged backward in a second run
PlanInit ==
    /\ prog = "clicker"
    /\ PipelineIdle
    /\ call \in {[fn |-> "download", n_results |-> k, extend |-> e] :
                    k \in 0..MaxN, e \in BOOLEAN}
    /\ result = [stage |-> 0, forward |-> <<>>, backward |-> <<>>]

ForwardPass ==
    /\ call.fn = "download"
    /\ result.stage = 0
    /\ result' = [result EXCEPT !.stage = 1,
                                !.forward = Chunks(2020, 1, call.n_results, FALSE)]
    /\ UNCHANGED <<pipeline, call>>

BackwardPass ==
    /\ call.fn = "download"
    /\ result.stage = 1
    /\ call.extend
    /\ result' = [result EXCEPT !.stage = 2,
                                !.backward = Chunks(2020, 1, call.n_results, TRUE)]
    /\ UNCHANGED <<pipeline, call>>

PlanNext == ForwardPass \/ BackwardPass
SpecPlan == PlanInit /\ [][PlanNext]_vars

\* ------------------------------------------------- process_download on its own
\* times process_download is applied to one artifact
MaxApplications == 3

\* the requests whose archives the program can have stored: every chunk of
\* every window of 2019 and 2020, in either direction
Requests ==
    UNION {{<<yr, mo, bw, Plan(NResults(yr, mo), bw)[k][1],
              Plan(NResults(yr, mo), bw)[k][2]>> :
               k \in 1..Len(Plan(NResults(yr, mo), bw))} :
           yr \in {2019, 2020}, mo \in 1..12, bw \in BOOLEAN}

\* an artifact is processed again and again, on the record store that
\* processing some artifact (or none) has left
ProcessInit ==
    /\ prog \in {"clicker", "scraper"}
    /\ PipelineIdle
    /\ \E q \in Requests, before \in {<<>>} \cup {<<o>> : o \in Requests} :
          /\ call = [fn |-> "process_download", request |-> q]
          /\ result = [stage |-> 0, raised |-> FALSE, once |-> <<>>,
                       before |-> IF before = <<>> THEN <<>>
                                  ELSE ProcessDownload(prog, <<>>, ArchiveOf(before[1])).json,
                       json |-> IF before = <<>> THEN <<>>
                                ELSE ProcessDownload(prog, <<>>, ArchiveOf(before[1])).json]

ProcessAgain ==
    /\ call.fn = "process_download"
    /\ result.stage < MaxApplications
    /\ \E res \in {ProcessDownload(prog, result.json, ArchiveOf(call.request))} :
          result' = [result EXCEPT !.stage = result.stage + 1,
                                   !.raised = res.raised,
                                   !.json = res.json,
                                   !.once = IF result.stage = 0 THEN res.json
                                            ELSE result.once]
    /\ UNCHANGED <<pipeline, call>>

ProcessNext == ProcessAgain
SpecProcess == ProcessInit /\ [][ProcessNext]_vars

\* ------------------------------------------------- process_downloads
\* the code point of a character of a path
CodePoint(c) ==
    CASE c = "-" -> 45
      [] c = "." -> 46
      [] c = "/" -> 47
      [] c = "B" -> 66
      [] c = "i" -> 105
      [] c = "p" -> 112
      [] c = "z" -> 122
      [] OTHER -> 48 + CHOOSE d \in 0..9 : DigitChar(d) = c

\* str.__lt__
RECURSIVE StrLess(_, _)
StrLess(a, b) ==
    IF b = <<>> THEN FALSE
    ELSE IF a = <<>> THEN TRUE
    ELSE IF a[1] = b[1] THEN StrLess(Tail(a), Tail(b))
    ELSE CodePoint(a[1]) < CodePoint(b[1])

\* Path.parts
RECURSIVE Parts(_)
Parts(path) ==
    IF IndexOf(path, "/") = 0 THEN <<path>>
    ELSE <<Before(path, IndexOf(path, "/"))>> \o Parts(After(path, IndexOf(path, "/")))

\* Path.__lt__: the parts compared one by one
RECURSIVE PartsLess(_, _)
PartsLess(a, b) ==
    IF b = <<>> THEN FALSE
    ELSE IF a = <<>> THEN TRUE
    ELSE IF a[1] = b[1] THEN PartsLess(Tail(a), Tail(b))
    ELSE StrLess(a[1], b[1])

\* sorted(...)
RECURSIVE Sorted(_)
Sorted(paths) ==
    IF paths = {} THEN <<>>
    ELSE LET first == CHOOSE a \in paths :
                          \A b \in paths \ {a} : PartsLess(Parts(a), Parts(b))
         IN  <<first>> \o Sorted(paths \ {first})

\* variant: glob("*.zip"), the files directly under zip/
GlobTop(paths) ==
    {a \in paths : SubSeq(a, 1, Len(ZipDir)) = ZipDir /\ EndsWith(a, DotZip)
                   /\ IndexOf(After(a, Len(ZipDir)), "/") = 0}

\* (data_path / "zip").glob("**/*.zip")
GlobAll(paths) ==
    {a \in paths : SubSeq(a, 1, Len(ZipDir)) = ZipDir /\ EndsWith(a, DotZip)}

\* the loop of process_downloads over the sorted paths: the store it leaves,
\* and whether an exception ended it
RECURSIVE ProcessPaths(_, _, _, _)
ProcessPaths(p, stored, store, paths) ==
    IF paths = <<>> THEN [json |-> store, raised |-> FALSE]
    ELSE LET res == ProcessDownload(p, store, ArchiveOf(stored[paths[1]]))
         IN  IF res.raised THEN res
             ELSE ProcessPaths(p, stored, res.json, Tail(paths))

\* artifacts that runs of clickthrough have left under zip/
MaxStored == 4

RequestsOf(yr, mo, bw) ==
    [k \in 1..Len(Plan(NResults(yr, mo), bw)) |->
        <<yr, mo, bw, Plan(NResults(yr, mo), bw)[k][1], Plan(NResults(yr, mo), bw)[k][2]>>]

\* the chunks runs over a year fetch, in the order they fetch them
RECURSIVE FetchSequence(_, _, _)
FetchSequence(yr, mo, bw) ==
    IF mo > 12 THEN <<>>
    ELSE RequestsOf(yr, mo, bw) \o FetchSequence(yr, mo + 1, bw)

PathOf(q) == DestPath(q[1], q[2], q[3], q[4], q[5])

\* the records process_download writes for each of the artifacts of a set
RECURSIVE RecordsAfter(_, _)
RecordsAfter(p, qs) ==
    IF qs = {} THEN <<>>
    ELSE LET q == CHOOSE x \in qs : TRUE
         IN  ProcessDownload(p, <<>>, ArchiveOf(q)).json @@ RecordsAfter(p, qs \ {q})

\* The data directory before process_downloads is called: runs over 2019 or
\* over 2020, forward or backward, have stored the first chunks of their fetch
\* sequence; some of the artifacts were decoded, the others were left by runs
\* that were stopped between moving the archive and process_download.
RepairInit ==
    /\ prog \in {"clicker", "scraper"}
    /\ pc = "idle"
    /\ backward = FALSE
    /\ wi = 1
    /\ n_results = 0
    /\ r = <<>>
    /\ log = <<>>
    /\ ops = {}
    /\ resume = <<>>
    /\ call = [fn |-> "process_downloads"]
    /\ result = [stage |-> 0, returned |-> FALSE]
    /\ \E yr \in {2019, 2020}, bw \in BOOLEAN :
          \E seq \in {FetchSequence(yr, 1, bw)} :
             \E k \in 0..Min(MaxStored, Len(seq)) :
                \E decoded \in SUBSET {seq[j] : j \in 1..k} :
                   /\ zip = [a \in {PathOf(seq[j]) : j \in 1..k} |->
                                CHOOSE q \in {seq[j] : j \in 1..k} : PathOf(q) = a]
                   /\ json = RecordsAfter(prog, decoded)

\* process_downloads()
ProcessDownloads ==
    /\ call.fn = "process_downloads"
    /\ result.stage = 0
    /\ \E res \in {ProcessPaths(prog, zip, json, Sorted(GlobAll(DOMAIN zip)))} :
          /\ json' = res.json
          /\ result' = [stage |-> 1, returned |-> ~res.raised]
    /\ UNCHANGED <<prog, zip, pc, backward, wi, n_results, r, log, ops, resume, call>>

RepairNext == ProcessDownloads
SpecRepair == RepairInit /\ [][RepairNext]_vars

\* ------------------------------------------------- two artifacts, both orders
\* process_download is applied to two stored artifacts, in one order and in
\* the other, each time starting from an empty record store; an exception in
\* one call does not keep the caller from making the other
OrderInit ==
    /\ prog \in {"clicker", "scraper"}
    /\ PipelineIdle
    /\ call \in {[fn |-> "process_download twice", a |-> qa, b |-> qb] :
                    qa \in Requests, qb \in Requests}
    /\ result = [stage |-> 0, ab |-> <<>>, ba |-> <<>>]

\* a, then b
DecodeAB ==
    /\ call.fn = "process_download twice"
    /\ result.stage = 0
    /\ \E first \in {ProcessDownload(prog, <<>>, ArchiveOf(call.a)).json} :
          result' = [result EXCEPT !.stage = 1,
                        !.ab = ProcessDownload(prog, first, ArchiveOf(call.b)).json]
    /\ UNCHANGED <<pipeline, call>>

\* b, then a
DecodeBA ==
    /\ call.fn = "process_download twice"
    /\ result.stage = 1
    /\ \E first \in {ProcessDownload(prog, <<>>, ArchiveOf(call.b)).json} :
          result' = [result EXCEPT !.stage = 2,
                        !.ba = ProcessDownload(prog, first, ArchiveOf(call.a)).json]
    /\ UNCHANGED <<pipeline, call>>

OrderNext == DecodeAB \/ DecodeBA
SpecOrder == OrderInit /\ [][OrderNext]_vars

\* ------------------------------------------------- dest_path on its own
PathYears == {2020, 2021}
PathMonths == {1, 11}
PathIndexes == {1, 11, 100, 101, 111}

\* (year, month, backward, x, y) with x <= y
PathInputs ==
    {c \in PathYears \X PathMonths \X BOOLEAN \X PathIndexes \X PathIndexes : c[4] <= c[5]}

PathInit ==
    /\ prog = "clicker"
    /\ PipelineIdle
    /\ call \in {[fn |-> "dest_path", a |-> c, b |-> d] : c \in PathInputs, d \in PathInputs}
    /\ result = [stage |-> 0]

ComputePaths ==
    /\ call.fn = "dest_path"
    /\ result.stage = 0
    /\ result' = [stage |-> 1,
                  a |-> DestPath(call.a[1], call.a[2], call.a[3], call.a[4], call.a[5]),
                  b |-> DestPath(call.b[1], call.b[2], call.b[3], call.b[4], call.b[5])]
    /\ UNCHANGED <<pipeline, call>>

PathNext == ComputePaths
SpecPaths == PathInit /\ [][PathNext]_vars

\* ------------------------------------------------- the windows of clickthrough
\* the years clickthrough is called with
PlanYears == 2018..2024

\* clickthrough(start, end) of either program, and the windows its loop visits
WindowsInit ==
    /\ prog \in {"clicker", "scraper"}
    /\ PipelineIdle
    /\ call \in {[fn |-> "clickthrough", start |-> s, end |-> e] :
                    s \in PlanYears, e \in PlanYears}
    /\ result = [stage |-> 0, windows |-> <<>>]

VisitWindows ==
    /\ call.fn = "clickthrough"
    /\ result.stage = 0
    /\ result' = [stage |-> 1, windows |-> MonthsAndYears(prog, call.start, call.end)]
    /\ UNCHANGED <<pipeline, call>>

WindowsNext == VisitWindows
SpecWindows == WindowsInit /\ [][WindowsNext]_vars

\* ------------------------------------------------- parse on its own
BlobTitles == {"T1", "T2"}
BlobSources == {"Src", "AFP"}
BlobDateLines == {"Jan 5, 2020", "Feb 5, 2019", "n.d."}
\* the Dateline line of the blob: none, or its comma separated parts
BlobDatelines ==
    {<<>>, <<"Paris">>, <<"Paris", "France">>, <<"Paris", "France", "Monday">>,
     <<"Paris", "Ile-de-France", "France", "Monday">>}
BlobClosings == {"Graphic", "Load-Date"}

\* parts joined by ", "
RECURSIVE Joined(_)
Joined(parts) ==
    IF Len(parts) <= 1 THEN parts
    ELSE <<parts[1], COMMA, SP>> \o Joined(Tail(parts))

\* the plain text of a document: title, source and date lines, the section
\* lines of which Dateline is one, the Body marker, the body, the closing marker
Blob(c) ==
    <<c.title, NL, c.source, NL, c.date, NL, "Length:", SP, "300", SP, "words", NL>>
    \o (IF c.dateline = <<>> THEN <<>>
        ELSE <<"Dateline:", SP>> \o Joined(c.dateline) \o <<NL>>)
    \o <<"Body", NL, SP, "Climate", SP, "march", SP, NL, c.closing, NL, "End", NL>>

ParseInit ==
    /\ prog \in {"clicker", "scraper"}
    /\ PipelineIdle
    /\ call \in {[fn |-> "parse", title |-> t, source |-> f, date |-> d,
                  dateline |-> l, closing |-> g] :
                    t \in BlobTitles, f \in BlobSources, d \in BlobDateLines,
                    l \in BlobDatelines, g \in BlobClosings}
    /\ result = [stage |-> 0]

ParseBlob ==
    /\ call.fn = "parse"
    /\ result.stage = 0
    /\ \E res \in {Parse(prog, Blob(call))} :
          result' = IF res.raised THEN [stage |-> 1, raised |-> TRUE]
                    ELSE [stage |-> 1, raised |-> FALSE, value |-> res.value]
    /\ UNCHANGED <<pipeline, call>>

ParseNext == ParseBlob
SpecParse == ParseInit /\ [][ParseNext]_vars

\* ------------------------------------------------- clickthrough's try statement
\* One call of clickthrough, step by step: where it stands (stage, and w, the
\* window of the loop), the browsers launched and closed, whether the names
\* page and browser are bound in clickthrough (setup has returned), where an
\* exception was raised inside the try (failed), and whether one has been
\* raised by the except or finally clause itself (secondary).
SessionInit ==
    /\ prog \in {"clicker", "scraper"}
    /\ PipelineIdle
    /\ call = [fn |-> "clickthrough: try"]
    /\ result = [stage |-> "setup", w |-> 0, launched |-> 0, closed |-> 0,
                 bound |-> FALSE, failed |-> "none", secondary |-> FALSE]

AtStage(st) == call.fn = "clickthrough: try" /\ result.stage = st

\* an exception inside the try: control goes to the except clause
Raised(where) == [result EXCEPT !.stage = "except", !.failed = where]

\* setup: async_playwright().start() or chromium.launch(timeout=10_000) raises
SetupLaunchFails ==
    /\ AtStage("setup")
    /\ result' = Raised("launch")
    /\ UNCHANGED <<pipeline, call>>

\* setup: the browser is launched, new_context or new_page raises
SetupPageFails ==
    /\ AtStage("setup")
    /\ result' = [Raised("new_page") EXCEPT !.launched = 1]
    /\ UNCHANGED <<pipeline, call>>

\* setup returns: page, browser, context are assigned
SetupReturns ==
    /\ AtStage("setup")
    /\ result' = [result EXCEPT !.stage = "login", !.launched = 1, !.bound = TRUE]
    /\ UNCHANGED <<pipeline, call>>

LoginReturns ==
    /\ AtStage("login")
    /\ result' = [result EXCEPT !.stage = "search"]
    /\ UNCHANGED <<pipeline, call>>

LoginFails ==
    /\ AtStage("login")
    /\ result' = Raised("login")
    /\ UNCHANGED <<pipeline, call>>

SearchReturns ==
    /\ AtStage("search")
    /\ result' = [result EXCEPT !.stage = "loop", !.w = 1]
    /\ UNCHANGED <<pipeline, call>>

SearchFails ==
    /\ AtStage("search")
    /\ result' = Raised("search")
    /\ UNCHANGED <<pipeline, call>>

\* one window of the loop: search_by_month and download return
WindowReturns ==
    /\ AtStage("loop")
    /\ result.w <= Len(Windows)
    /\ result' = [result EXCEPT !.w = result.w + 1]
    /\ UNCHANGED <<pipeline, call>>

\* search_by_month raises
NarrowingRaises ==
    /\ AtStage("loop")
    /\ result.w <= Len(Windows)
    /\ result' = Raised("search_by_month")
    /\ UNCHANGED <<pipeline, call>>

\* download raises
DownloadRaises ==
    /\ AtStage("loop")
    /\ result.w <= Len(Windows)
    /\ result' = Raised("download")
    /\ UNCHANGED <<pipeline, call>>

\* the loop is over, no exception: on to the finally clause
LoopEnds ==
    /\ AtStage("loop")
    /\ result.w > Len(Windows)
    /\ result' = [result EXCEPT !.stage = "finally"]
    /\ UNCHANGED <<pipeline, call>>

\* except Exception as e: print(e); await page.wait_for_timeout(...).  With page
\* unbound the clause raises UnboundLocalError
ExceptClause ==
    /\ AtStage("except")
    /\ result' = [result EXCEPT !.stage = "finally", !.secondary = ~result.bound]
    /\ UNCHANGED <<pipeline, call>>

\* finally: await browser.close().  With browser unbound the clause raises
\* UnboundLocalError; clickthrough then ends, with that exception if any
FinallyClause ==
    /\ AtStage("finally")
    /\ result' = [result EXCEPT !.stage = "ended",
                                !.closed = IF result.bound THEN result.closed + 1
                                           ELSE result.closed,
                                !.secondary = result.secondary \/ ~result.bound]
    /\ UNCHANGED <<pipeline, call>>

SessionNext ==
    \/ SetupLaunchFails
    \/ SetupPageFails
    \/ SetupReturns
    \/ LoginReturns
    \/ LoginFails
    \/ SearchReturns
    \/ SearchFails
    \/ WindowReturns
    \/ NarrowingRaises
    \/ DownloadRaises
    \/ LoopEnds
    \/ ExceptClause
    \/ FinallyClause

SpecSession == SessionInit /\ [][SessionNext]_vars

\* ============================================================ properties

\* the window of index k of the current run
WinYear(k) == Windows[k][2]
WinMonth(k) == Windows[k][1]

\* a fetch went through the download dialog for a B-prefixed destination
IsBackwardFetch(o) == o.op = "fetch" /\ Name(o.path)[1] = "B"

\* C1: download never goes through the download dialog for a chunk whose
\* destination already exists under zip/, in any run of any sequence of runs:
\* every dialog interaction is for a path that is not stored, and an artifact
\* once stored is never written again.
C1_NoRefetch ==
    [][/\ \A o \in ops' \ ops : o.op = "fetch" => o.path \notin DOMAIN zip
       /\ \A p \in DOMAIN zip : p \in DOMAIN zip' /\ zip'[p] = zip[p]
       /\ \A p \in DOMAIN zip' \ DOMAIN zip : Op(wi, "fetch", p) \in ops' \ ops]_vars

\* a second run has gone past a chunk of its plan that was stored before,
\* without a fetch
C1_Witness ==
    /\ Len(log) = 2
    /\ pc = "chunks"
    /\ LET all == LoopRange(n_results, backward)
       IN  \E k \in 1..(Len(all) - Len(r)) :
              LET dest == DestPath(CurYear, CurMonth, backward, ChunkX(all[k]),
                                   ChunkY(all[k], n_results, backward))
              IN  dest \in DOMAIN zip /\ Op(wi, "fetch", dest) \notin ops

\* what one run of clickthrough that nothing interrupts leaves in data/json,
\* started on empty storage: every chunk of every window fetched and processed
\* in order, up to the first exception
RECURSIVE RunChunks(_, _, _, _, _, _)
RunChunks(p, store, year, month, bw, plan) ==
    IF plan = <<>> THEN [json |-> store, raised |-> FALSE]
    ELSE LET res == ProcessDownload(p, store,
                        Archive(year, month, bw, plan[1][1], plan[1][2]))
         IN  IF res.raised THEN res
             ELSE RunChunks(p, res.json, year, month, bw, Tail(plan))

RECURSIVE RunWindows(_, _, _, _)
RunWindows(p, store, windows, bw) ==
    IF windows = <<>> THEN [json |-> store, raised |-> FALSE]
    ELSE LET res == RunChunks(p, store, windows[1][2], windows[1][1], bw,
                              Plan(NResults(windows[1][2], windows[1][1]), bw))
         IN  IF res.raised THEN res
             ELSE RunWindows(p, res.json, Tail(windows), bw)

UninterruptedJson(p, bw) ==
    RunWindows(p, <<>>, MonthsAndYears(p, YearRange[1], YearRange[2]), bw).json

\* C2: a run stopped inside a window, then a run with the same configuration
\* that reaches its end, leave the same records as one uninterrupted run.
C2_SameRecords ==
    (/\ Len(log) = 2
     /\ log[1].end = "stopped"
     /\ log[2].end = "done"
     /\ log[1].backward = log[2].backward)
    => json = UninterruptedJson(prog, log[2].backward)

\* the width of the range of a stored artifact, its direction, its end
Width(q) == q[5] - q[4] + 1
IsB(q) == q[3]
RangeEnd(q) == q[5]

\* the classes as C4 states them
C4ClaimedClass(existing_files) ==
    IF \E a \in existing_files : Width(zip[a]) < 100 THEN "Complete"
    ELSE IF /\ \E a \in existing_files : ~IsB(zip[a]) /\ RangeEnd(zip[a]) = 1000
            /\ ~\E a \in existing_files : IsB(zip[a])
    THEN "CappedForward"
    ELSE "NeedsWork"

\* the classes as the code draws them: an artifact of either direction that
\* ends at 1000 makes the window CappedForward
C4AmendedClass(existing_files) ==
    IF \E a \in existing_files : Width(zip[a]) < 100 THEN "Complete"
    ELSE IF \E a \in existing_files : RangeEnd(zip[a]) = 1000 THEN "CappedForward"
    ELSE "NeedsWork"

SkippedClass(c, bw) == c = "Complete" \/ (c = "CappedForward" /\ ~bw)

C5_NoPageOps ==
    \A k \in 1..Len(resume) :
        SkippedClass(resume[k], backward) => ~\E o \in ops : o.w = k

\* a forward run has left a capped window behind and gone on
C5_Witness ==
    /\ ~backward
    /\ \E k \in 1..Len(resume) : resume[k] = "CappedForward" /\ wi > k
    /\ \E o \in ops : o.op = "narrow"

\* C6: a B-prefixed chunk is fetched only for a window that was CappedForward
\* when its processing began, a forward artifact ending at 1000 being stored
\* for it; a window with no artifact gets no backward pass.
C6_BackwardOnlyFromCapped ==
    \A o \in ops :
        IsBackwardFetch(o) =>
            /\ resume[o.w] = "CappedForward"
            /\ DestPath(WinYear(o.w), WinMonth(o.w), FALSE, 901, 1000) \in DOMAIN zip

\* the positions (ascending by date) that a pass has asked for
Positions(chunks, nres, bw) ==
    UNION {{Position(j, nres, bw) : j \in chunks[k].x..chunks[k].y} : k \in 1..Len(chunks)}

\* the result indexes that a pass has asked for
Indexes(chunks) == UNION {chunks[k].x..chunks[k].y : k \in 1..Len(chunks)}

StartsWith(s, prefix) == Len(s) >= Len(prefix) /\ SubSeq(s, 1, Len(prefix)) = prefix

\* C7: for every result count N >= 0 the forward pass plans the chunks
\* (100k+1, min(100k+100, N)), k = 0, 1, ..., in ascending order: contiguous,
\* disjoint, covering exactly 1..min(N, 1000), at most 10 of them (the ten
\* 1-100 ... 901-1000 for N = 2500), each with x <= y and y - x < 100.
C7_ForwardPlan ==
    result.stage >= 1 =>
        LET N == call.n_results
            F == result.forward
        IN  /\ Len(F) <= 10
            /\ \A k \in 1..Len(F) :
                  /\ F[k].x = 100 * (k - 1) + 1
                  /\ F[k].y = Min(100 * (k - 1) + 100, N)
                  /\ F[k].x <= F[k].y
                  /\ F[k].y - F[k].x < 100
            /\ \A k \in 1..(Len(F) - 1) : F[k + 1].x = F[k].y + 1
            /\ Indexes(F) = 1..Min(N, 1000)
            /\ N = 2500 =>
                  /\ Len(F) = 10
                  /\ \A k \in 1..10 : F[k].selected = Str(100 * k - 99) \o <<"-">> \o Str(100 * k)

\* the forward pass over 2500 results has planned its ten chunks
C7_Witness ==
    /\ result.stage >= 1
    /\ call.n_results = 2500
    /\ Len(result.forward) = 10
    /\ result.forward[10].y = 1000

\* C8 as claimed: the backward pass over N > 1000 results asks for the indexes
\* 1..min(N-1000, 1000) in chunks of at most 100 and labels the artifact of
\* chunk i (from 0) with positions starting at N-1000-100i+1; for N <= 1000 it
\* plans no chunk.
C8_Original ==
    result.stage = 2 =>
        LET N == call.n_results
            B == result.backward
        IN  /\ N <= 1000 => B = <<>>
            /\ N > 1000 =>
                  /\ Indexes(B) = 1..Min(N - 1000, 1000)
                  /\ \A k \in 1..Len(B) :
                        /\ B[k].y - B[k].x < 100
                        /\ \/ StartsWith(Name(B[k].dest),
                                         <<"B">> \o Str(N - 1000 - 100 * (k - 1) + 1) \o <<"-">>)
                           \/ StartsWith(Name(B[k].dest),
                                         <<"B">> \o Str(N - 1000 - 100 * (k - 1) + 1) \o <<".">>)

\* C8 (amended): the backward pass over N > 1000 results asks for the indexes
\* 1..min(N-1000, 1000) of the descending order in chunks (100i+1,
\* min(100i+100, N-1000)) and labels the artifact of each chunk with the very
\* range it typed into the dialog, B in front; for N <= 1000 it plans no chunk.
C8_BackwardPlan ==
    result.stage = 2 =>
        LET N == call.n_results
            B == result.backward
        IN  /\ N <= 1000 => B = <<>>
            /\ N > 1000 =>
                  /\ Indexes(B) = 1..Min(N - 1000, 1000)
                  /\ \A k \in 1..Len(B) :
                        /\ B[k].x = 100 * (k - 1) + 1
                        /\ B[k].y = Min(100 * (k - 1) + 100, N - 1000)
                        /\ B[k].x <= B[k].y
                        /\ B[k].y - B[k].x < 100
                        /\ B[k].selected =
                              IF B[k].x = B[k].y THEN Str(B[k].x)
                              ELSE Str(B[k].x) \o <<"-">> \o Str(B[k].y)
                        /\ Name(B[k].dest) = <<"B">> \o B[k].selected \o DotZip

\* the backward pass over 2547 results has planned ten chunks, B1-100 first
C8_Witness ==
    /\ result.stage = 2
    /\ call.n_results = 2547
    /\ Len(result.backward) = 10
    /\ Name(result.backward[1].dest) = <<"B", "1", "-", "1", "0", "0", ".", "z", "i", "p">>

\* C9: after a forward and a backward pass over a window with N results the
\* chunks cover exactly min(N, 2000) documents: the forward chunks the first
\* min(N, 1000) in ascending date order, the backward chunks the last
\* min(N-1000, 1000), no position in both; for N > 2000 the positions
\* 1001..N-1000 are never asked for.
C9_Coverage ==
    result.stage = 2 =>
        LET N == call.n_results
            FP == Positions(result.forward, N, FALSE)
            BP == Positions(result.backward, N, TRUE)
        IN  /\ FP = 1..Min(N, 1000)
            /\ BP = IF N > 1000 THEN (N - Min(N - 1000, 1000) + 1)..N ELSE {}
            /\ FP \cap BP = {}
            /\ Cardinality(FP \cup BP) = Min(N, 2000)
            /\ N > 2000 => (1001..(N - 1000)) \cap (FP \cup BP) = {}

\* both passes have run over a window with more than 2000 results
C9_Witness ==
    /\ result.stage = 2
    /\ call.n_results = 2001
    /\ Len(result.forward) = 10
    /\ Len(result.backward) = 10

\* C10: dest_path is zip/{year}-{month:02d}/{B?}{start}-{end}.zip, B exactly
\* for a backward chunk, the dash and the end left out exactly when start = end,
\* and two different (window, direction, start, end) never share a path.
C10_PathInjective ==
    result.stage = 1 =>
        /\ result.a = result.b => call.a = call.b
        /\ LET nm == Name(result.a)
           IN  /\ SubSeq(result.a, 1, Len(result.a) - Len(nm)) =
                     ZipDir \o Str(call.a[1]) \o <<"-">> \o Pad2(call.a[2]) \o <<"/">>
               /\ (nm[1] = "B") <=> call.a[3]
               /\ Contains(nm, <<"-">>) <=> call.a[4] # call.a[5]
               /\ EndsWith(nm, DotZip)
               /\ Len(nm) = (IF call.a[3] THEN 1 ELSE 0) + Len(Str(call.a[4])) + Len(DotZip)
                            + (IF call.a[4] # call.a[5] THEN 1 + Len(Str(call.a[5])) ELSE 0)

\* a forward and a backward chunk of one window and one range, stored apart
C10_Witness ==
    /\ result.stage = 1
    /\ call.a[1] = call.b[1] /\ call.a[2] = call.b[2]
    /\ call.a[4] = call.b[4] /\ call.a[5] = call.b[5]
    /\ ~call.a[3] /\ call.b[3]
    /\ result.a # result.b

\* the names of the entries of an archive that are documents
EntryNames(archive) ==
    LET texts == Unpack(archive) IN {texts[k][1] : k \in 1..Len(texts)}

\* C3: process_download is idempotent on the record store: applied again to
\* the same artifact it leaves the files that the first application left, no
\* more and none changed; and every file it writes sits at
\* json/{date of the record}/{entry name}.json.
C3_Idempotent ==
    result.stage >= 1 =>
        /\ result.stage >= 2 => result.json = result.once
        /\ \A key \in DOMAIN result.json \ DOMAIN result.before :
              /\ result.json[key].date # None
              /\ \E fn \in EntryNames(ArchiveOf(call.request)) :
                    key = <<"j", "s", "o", "n", "/">> \o Get(result.json[key].date)
                          \o <<"/">> \o fn \o <<".", "j", "s", "o", "n">>

\* an artifact whose two documents are both stored has been processed twice,
\* on a store that held other records before
C3_Witness ==
    /\ result.stage = 2
    /\ result.before # <<>>
    /\ Cardinality(DOMAIN result.json \ DOMAIN result.before) = 2
    /\ ~result.raised


\* ------------------------------------------------------------------ C11
\* the windows (month, year) with month in 1..12 and start <= year < end,
\* in chronological order
HalfOpenWindows(start, end) ==
    [k \in 1..(12 * (IF end > start THEN end - start ELSE 0)) |->
        <<((k - 1) % 12) + 1, start + ((k - 1) \div 12)>>]

\* C11: for all years start and end, clickthrough of either program visits
\* exactly the windows (month, year) with month in 1..12 and
\* start <= year < end, each once, in chronological order: the 12 windows of
\* 2020 for start = 2020 and end = 2021, no window for start = end.
C11_HalfOpenYears ==
    (call.fn = "clickthrough" /\ result.stage = 1) =>
        result.windows = HalfOpenWindows(call.start, call.end)


\* ------------------------------------------------------------------ C12
\* a step in which narrowing to the current window or fetching one of its
\* chunks fails: the page operation is begun and nothing comes of it
NarrowingFails == (\E o \in ops' \ ops : o.op = "narrow") /\ pc' # "narrowed"
FetchFails == (\E o \in ops' \ ops : o.op = "fetch") /\ zip' = zip

\* C12: a failure raised while narrowing to a window or while fetching one of
\* its chunks ends processing of at most that window: the run is not over,
\* clickthrough takes the next window of the plan.
C12_FailureEndsWindowOnly ==
    [][(NarrowingFails \/ FetchFails) => (pc' = "month" /\ wi' = wi + 1)]_vars


\* ------------------------------------------------------------------ C13
\* the texts of the documents of an artifact, by entry name
Texts(archive) == UNION {{u[k] : k \in DOMAIN u} : u \in {Unpack(archive)}}

\* a text that parse cannot split: no Body marker, or no closing marker
Unsplittable(plaintext) ==
    \/ IndexOf(plaintext, "Body") = 0
    \/ IndexOf(plaintext, "Graphic") = 0 /\ IndexOf(plaintext, "Load-Date") = 0

\* an entry whose text parses and has a date
Dated(p, t) == ~Parse(p, t[2]).raised /\ Parse(p, t[2]).value.date # None

\* the record of a dated entry is in the store
Stored(p, store, t) ==
    /\ JPath(Get(Parse(p, t[2]).value.date), t[1]) \in DOMAIN store
    /\ store[JPath(Get(Parse(p, t[2]).value.date), t[1])] = Parse(p, t[2]).value

\* C13: when process_download decodes an artifact in which one entry cannot be
\* split (no Body marker, no closing marker) and every other entry has a
\* resolvable date, the failure stays with that entry: no exception leaves
\* process_download, and every other entry's record is stored.
C13_EntryFailureIsolated ==
    (/\ call.fn = "process_download"
     /\ result.stage >= 1
     /\ \E t \in Texts(ArchiveOf(call.request)) : Unsplittable(t[2])
     /\ \A t \in Texts(ArchiveOf(call.request)) : Unsplittable(t[2]) \/ Dated(prog, t))
    => /\ ~result.raised
       /\ \A t \in Texts(ArchiveOf(call.request)) :
             Dated(prog, t) => Stored(prog, result.json, t)


\* ------------------------------------------------------------------ C14
\* an entry whose text parses and whose date line is not a date
Undated(p, t) == ~Parse(p, t[2]).raised /\ Parse(p, t[2]).value.date = None

\* the record files written under an entry's name
RecordsOf(store, t) ==
    {jp \in DOMAIN store : EndsWith(jp, <<"/">> \o t[1] \o <<".", "j", "s", "o", "n">>)}

\* C14: when process_download / process decodes an artifact with a document
\* whose date line cannot be resolved to a date (every entry parses
\* otherwise), that document is dropped and processing goes on: no exception,
\* no record file for it, every dated entry of the artifact stored, and no
\* stored record has a null date.
C14_UndatedDropped ==
    (/\ call.fn = "process_download"
     /\ result.stage >= 1
     /\ result.before = <<>>
     /\ \E t \in Texts(ArchiveOf(call.request)) : Undated(prog, t)
     /\ \A t \in Texts(ArchiveOf(call.request)) : Undated(prog, t) \/ Dated(prog, t))
    => /\ ~result.raised
       /\ \A t \in Texts(ArchiveOf(call.request)) :
             /\ Undated(prog, t) => RecordsOf(result.json, t) = {}
             /\ Dated(prog, t) => Stored(prog, result.json, t)
       /\ \A jp \in DOMAIN result.json : result.json[jp].date # None


\* ------------------------------------------------------------------ C15
\* C15: for every text blob that has title, source and date lines, a Body
\* marker and a closing marker but no Dateline line, parse raises no exception
\* and returns a record with location = null and country = null.
C15_NoDatelineNoRaise ==
    (call.fn = "parse" /\ result.stage = 1 /\ IndexOf(Blob(call), "Dateline:") = 0)
    => /\ ~result.raised
       /\ result.value.location = None
       /\ result.value.country = None


\* ------------------------------------------------------------------ C16
\* the date a date line of the blobs means, as YYYY-MM-DD
IsoDate(line) ==
    IF line = "Jan 5, 2020" THEN <<"2", "0", "2", "0", "-", "0", "1", "-", "0", "5">>
    ELSE <<"2", "0", "1", "9", "-", "0", "2", "-", "0", "5">>

\* a blob with a parseable date, a Dateline line of k comma separated parts,
\* and the closing marker Graphic, has been parsed
ParsedWithDateline(k) ==
    /\ call.fn = "parse"
    /\ result.stage = 1
    /\ call.date # "n.d."
    /\ call.closing = "Graphic"
    /\ Len(call.dateline) = k

\* title, source, date and text come out as the claim says
PlainFields ==
    /\ ~result.raised
    /\ result.value.title = <<call.title>>
    /\ result.value.source = <<call.source>>
    /\ result.value.date = Some(IsoDate(call.date))
    /\ result.value.text = <<"Climate", SP, "march">>

\* C16 as stated: a blob with title, source and date lines, a line
\* 'Dateline: <city>, <country>' and the markers Body and Graphic parses to
\* title, source, date as YYYY-MM-DD, location = <city>, country = <country>
\* and the trimmed text between Body and Graphic.
C16_Original ==
    ParsedWithDateline(2) =>
        /\ PlainFields
        /\ result.value.location = Some(<<call.dateline[1]>>)
        /\ result.value.country = Some(<<call.dateline[2]>>)

\* C16: the Dateline pattern drops the last comma separated part of the line;
\* 'Dateline: <city>, <country>, <rest>' gives location = <city> and
\* country = <country>, 'Dateline: <city>, <country>' gives location = <city>
\* and country = null; title, source, date as YYYY-MM-DD and the trimmed text
\* between Body and Graphic are returned in both cases.
C16_DatelineParts ==
    /\ ParsedWithDateline(3) =>
          /\ PlainFields
          /\ result.value.location = Some(<<call.dateline[1]>>)
          /\ result.value.country = Some(<<call.dateline[2]>>)
    /\ ParsedWithDateline(2) =>
          /\ PlainFields
          /\ result.value.location = Some(<<call.dateline[1]>>)
          /\ result.value.country = None

C16_Witness ==
    /\ ParsedWithDateline(3)
    /\ prog = "scraper"
    /\ result.value.location = Some(<<"Paris">>)
    /\ result.value.country = Some(<<"France">>)
    /\ result.value.date = Some(<<"2", "0", "2", "0", "-", "0", "1", "-", "0", "5">>)


\* ------------------------------------------------------------------ C17
\* every dated entry of the artifact stored at path has its record in store
AllStored(p, store, path) ==
    \A t \in Texts(ArchiveOf(zip[path])) :
        \A res \in {Parse(p, t[2])} :
            (~res.raised /\ res.value.date # None) =>
                /\ JPath(Get(res.value.date), t[1]) \in DOMAIN store
                /\ store[JPath(Get(res.value.date), t[1])] = res.value

\* C17: within a run chunk handling is strictly ordered fetch -> persist ->
\* decode -> next chunk.  A step that persists an artifact persists one, at the
\* canonical path of the current chunk, and leaves the run about to decode it;
\* the run goes on from there only by decoding it, which stores all of its
\* dated records, and only then takes the next chunk; no record is removed
\* afterwards.  So whenever a fetch begins, and whenever the run is stopped
\* between two chunks, every artifact persisted earlier in the run has its
\* records.
C17_FetchPersistDecode ==
    [][/\ zip' # zip =>
            /\ pc = "chunks" /\ pc' = "process"
            /\ DOMAIN zip' = DOMAIN zip \cup {CurDest}
            /\ \A q \in DOMAIN zip : zip'[q] = zip[q]
       /\ (pc = "process" /\ pc' # "idle") =>
            /\ pc' = "chunks"
            /\ r' = Tail(r)
            /\ AllStored(prog, json', CurDest)
       /\ \A jp \in DOMAIN json : jp \in DOMAIN json'
       /\ (\E o \in ops' \ ops : o.op = "fetch") => pc = "chunks"]_vars

\* a run has persisted and decoded a chunk and begins the next fetch
C17_Witness ==
    /\ pc = "chunks"
    /\ r # <<>>
    /\ ~Exists(DOMAIN zip, CurDest)
    /\ \E o \in ops : o.op = "fetch" /\ o.path \in DOMAIN zip
                      /\ AllStored(prog, json, o.path)
                      /\ \E t \in Texts(ArchiveOf(zip[o.path])) : Dated(prog, t)


\* ------------------------------------------------------------------ C18
\* what a forward pass over the window leaves under zip/, as the next run's
\* search_by_month finds it
LeftByForwardPass ==
    Glob({result.forward[k].dest : k \in 1..Len(result.forward)}, 2020, 1)

\* a forward pass has fetched every planned chunk of a window with at most
\* 1000 results
ForwardPassDone ==
    call.fn = "download" /\ result.stage >= 1 /\ call.n_results <= 1000

\* the page operations of the next forward run for the window: narrowing,
\* reading the result count, fetching a chunk that is not there
NextRunOps ==
    LET none == ReturnsNone(LeftByForwardPass, FALSE)
    IN  NarrowOps(none, 1)
        \cup (IF none THEN {} ELSE {Op(1, "count", <<>>)})
        \cup (IF none THEN {}
              ELSE {Op(1, "fetch", result.forward[k].dest) :
                       k \in {j \in 1..Len(result.forward) :
                                 ~Exists(LeftByForwardPass, result.forward[j].dest)}})

\* C18 as stated: after a forward pass has fetched every planned chunk of a
\* window with N results, 0 <= N <= 1000, a later forward run classifies the
\* window Complete and performs no session operation for it.
C18_Original ==
    ForwardPassDone =>
        Classify(LeftByForwardPass) = "Complete" /\ NextRunOps = {}

\* C18: after such a forward pass a later forward run finds the window
\* Complete, with no session operation, when N is not a multiple of 100;
\* CappedForward, with no session operation, when N = 1000; and NeedsWork when
\* N = 0 or N is a multiple of 100 below 1000: it narrows to the window and
\* reads the result count again, and fetches no chunk.
C18_ResumeAfterForwardPass ==
    ForwardPassDone =>
        IF call.n_results % 100 # 0
        THEN Classify(LeftByForwardPass) = "Complete" /\ NextRunOps = {}
        ELSE IF call.n_results = 1000
        THEN Classify(LeftByForwardPass) = "CappedForward" /\ NextRunOps = {}
        ELSE /\ Classify(LeftByForwardPass) = "NeedsWork"
             /\ NextRunOps = {Op(1, "narrow", <<>>), Op(1, "count", <<>>)}

\* windows of 0, 200 and 1000 results have been paged through
C18_Witness ==
    /\ ForwardPassDone
    /\ call.n_results \in {0, 200, 1000}
    /\ Len(result.forward) = call.n_results \div 100
    /\ Classify(LeftByForwardPass) # "Complete"


\* ------------------------------------------------------------------ C19
\* C19: whatever failure occurs in setup, login, search, narrowing or
\* download, clickthrough releases the session before it ends: every browser
\* that was launched has been closed exactly once, and no exception has been
\* raised by the except or finally clause itself.
C19_SessionReleased ==
    AtStage("ended") => (result.closed = result.launched /\ ~result.secondary)


\* ------------------------------------------------------------------ C20
\* C20: after process_downloads returns, every chunk artifact under zip/ has
\* been processed: every entry of every artifact that is not the manifest and
\* has a resolvable date has its record in the record store, also when the
\* artifact was persisted by an interrupted run and never decoded.
C20_AllProcessed ==
    (call.fn = "process_downloads" /\ result.stage = 1 /\ result.returned)
    => \A a \in DOMAIN zip : AllStored(prog, json, a)

\* process_downloads has returned on a data directory with artifacts in
\* different month directories, and the records of one that is not the first in
\* sorted order are there
C20_Witness ==
    /\ call.fn = "process_downloads"
    /\ result.stage = 1
    /\ result.returned
    /\ \E a \in DOMAIN zip, b \in DOMAIN zip : Parts(a)[2] # Parts(b)[2]
    /\ \E a \in DOMAIN zip :
          \E t \in Texts(ArchiveOf(zip[a])) :
             /\ Dated(prog, t)
             /\ Stored(prog, json, t)
             /\ Sorted(DOMAIN zip)[1] # a


\* ------------------------------------------------------------------ C21
\* both orders have been run
BothOrdersDone == call.fn = "process_download twice" /\ result.stage = 2

\* the record files one artifact alone gives
RecordsAlone(q) == ProcessDownload(prog, <<>>, ArchiveOf(q)).json

\* record files that both artifacts write, with different contents
Contested ==
    {jp \in DOMAIN RecordsAlone(call.a) \cap DOMAIN RecordsAlone(call.b) :
        RecordsAlone(call.a)[jp] # RecordsAlone(call.b)[jp]}

\* C21 as stated: for any two artifacts, decoding them in either order gives
\* the same record files with the same contents, also when entries of the two
\* share entry name and resolved date.
C21_Original == BothOrdersDone => result.ab = result.ba

\* C21: decoding two artifacts in either order gives the same record files,
\* and the same contents in every file that only one of them writes or that
\* both write alike; a record file whose entry name and resolved date two
\* entries with different contents share holds the entry decoded last.
C21_LastWriterWins ==
    BothOrdersDone =>
        /\ DOMAIN result.ab = DOMAIN result.ba
        /\ \A jp \in DOMAIN result.ab \ Contested : result.ab[jp] = result.ba[jp]
        /\ \A jp \in Contested :
              /\ result.ab[jp] = RecordsAlone(call.b)[jp]
              /\ result.ba[jp] = RecordsAlone(call.a)[jp]

\* two artifacts of one window, each with an entry of the same name and date,
\* have been decoded in both orders
C21_Witness ==
    /\ BothOrdersDone
    /\ call.a # call.b
    /\ RecordsAlone(call.a) # <<>>
    /\ RecordsAlone(call.b) # <<>>
    /\ Contested # {}
    /\ result.ab # result.ba


\* ------------------------------------------------------------------ C22
\* the chunks of the passes made so far
PlannedChunks ==
    {result.forward[k] : k \in 1..Len(result.forward)}
    \cup (IF result.stage = 2
          THEN {result.backward[k] : k \in 1..Len(result.backward)} ELSE {})

\* C22: for every chunk download lays out, forward or backward, the artifact's
\* file name ends in "00.zip" if and only if the chunk spans exactly 100
\* positions; so the name test of search_by_month fires on a set of the
\* program's own artifacts exactly when one of them spans fewer than 100.
C22_SuffixIsWidth ==
    (call.fn = "download" /\ result.stage >= 1) =>
        /\ \A c \in PlannedChunks :
              EndsWith(Name(c.dest), <<"0", "0">> \o DotZip) <=> (c.y - c.x + 1 = ChunkSize)
        /\ AnyNot00({c.dest : c \in PlannedChunks})
              <=> \E c \in PlannedChunks : c.y - c.x + 1 # ChunkSize

\* both passes over a window have laid out full chunks, and the backward pass
\* a last chunk of a single position
C22_Witness ==
    /\ call.fn = "download"
    /\ result.stage = 2
    /\ \E c \in PlannedChunks : c.y - c.x + 1 = ChunkSize /\ StartsWith(Name(c.dest), <<"B">>)
    /\ \E c \in PlannedChunks : c.y = c.x /\ StartsWith(Name(c.dest), <<"B">>)
    /\ \E c \in PlannedChunks : c.y - c.x + 1 = ChunkSize /\ ~StartsWith(Name(c.dest), <<"B">>)

====
